---- MODULE Spec2Model ----
(***************************************************************************)
(* State-machine model of src/js/main.js: the testimonial carousel         *)
(* (initTestimonialsCarousel) and the contact form (initContactForm).      *)
(*                                                                         *)
(* The two components are set up by separate init functions, keep their    *)
(* state in separate closures and share no variable.  Each init function   *)
(* returns early when its root element is missing (lines 438/441 and 556), *)
(* so a page may carry either component alone; Init enumerates those       *)
(* pages, and the behaviour of a page carrying both is an interleaving of  *)
(* the two.                                                                *)
(*                                                                         *)
(* Time is explicit: every live timer carries the milliseconds left until  *)
(* it is due, Tick lets TickMs milliseconds pass, and a timer that is due  *)
(* runs its callback before more time passes.                              *)
(***************************************************************************)
EXTENDS Integers, Sequences, FiniteSets, TLC

\* ------------------------------------------------------------ bounds
\* Largest number of .testimonial-card elements on a page.
MaxCards == 5
\* Largest number of interval timers alive at once (leaked ones included).
MaxTimers == 2
\* goToSlide is called directly with indices in -MaxArg..MaxArg (GoToSlideSpec).
MaxArg == 12
\* Collaborator calls that may be outstanding at once.
MaxCalls == 2
\* Longest field values validateForm is run on (ValidateSpec).
MaxNomeLen == 3
MaxEmailLen == 5
MaxReveal == 5
MaxBatch == 2
MaxCounters == 2
MaxMensagemLen == 11

\* ------------------------------------------------------------ program constants
AUTO_PLAY_INTERVAL == 6000
SWIPE_THRESHOLD == 50
SUBMIT_DELAY == 1500

RECURSIVE Gcd(_, _)
Gcd(a, b) == IF b = 0 THEN a ELSE Gcd(b, a % b)

\* Granularity of time: the largest step that lands on every timer's due time.
TickMs == Gcd(AUTO_PLAY_INTERVAL, SUBMIT_DELAY)

Min(a, b) == IF a <= b THEN a ELSE b

\* ------------------------------------------------------------ state
VARIABLES
    \* carousel (closure of initTestimonialsCarousel)
    cardsLength,    \* cards.length; 0 when the page has no carousel
    currentIndex,   \* let currentIndex
    autoPlayTimer,  \* let autoPlayTimer: a timer handle, Null before the first setInterval
    touchStartX,    \* let touchStartX
    dotActive,      \* dot index -> the dot carries class active
    dotSelected,    \* dot index -> the dot's aria-selected is "true"
    \* host environment
    intervals,      \* handle -> ms until the interval timer is due, Off when not live
    hovering,       \* the pointer is inside #testimonialsTrack
    reducedMotion,  \* what prefersReducedMotion() returns (the setting is fixed for the page's life)
    \* history
    lastEvent,      \* the handler that ran last
    argIndex,       \* the argument of the last goToSlide call
    prevIndex,      \* currentIndex before the last goToSlide call
    sinceManual,    \* ms since the last manual navigation, capped; NoManual before one
    \* contact form (closure of initContactForm and the DOM under #contatoForm)
    formPresent,    \* initContactForm found #contatoForm and registered its listeners
    value,          \* field -> the field's value, a sequence of characters
    hasError,       \* field -> the input carries class has-error
    fieldError,     \* field -> text of the .field-error span beside the input, NoError when none
    focused,        \* the field that has the focus, NoField when none
    submitDisabled, \* submitBtn.disabled
    isLoading,      \* submitBtn carries class is-loading
    feedbackClass,  \* feedback.className
    calls,          \* collaborator calls not settled yet: <<[data, due]>>
    \* the page and its load (DOMContentLoaded listener)
    present,        \* the optional elements the document has
    loaded,         \* the DOMContentLoaded listener has run
    initialised,    \* the init functions that returned
    uncaught,       \* an exception has escaped a listener
    \* scroll reveal (closure of initScrollAnimations and the .reveal-up elements)
    revealCount,    \* $$('.reveal-up').length
    revealed,       \* the elements that carry class is-revealed
    observed,       \* the elements the observer observes
    revealActs,     \* element -> number of callbacks that revealed it
    \* counters (closure of initCounters and the .stat-number elements)
    counterTargets, \* counter -> parseInt(counter.dataset.target, 10)
    counterObserving, \* the observer observes the first .stat-card
    staggers,       \* setTimeout calls not run yet: <<[counter, due]>>
    anims,          \* animateCounter calls: <<[counter, elapsed, running, framed, at]>>
    counterText,    \* counter -> el.textContent, NoText as long as the script has not set it
    starts,         \* counter -> number of animateCounter calls for it
    frameLag,       \* ms by which the time passed to a frame callback is behind performance.now()
    \* navbar (closure of initNavbar, #navbar, #navToggle, #mobileMenu, body)
    scrollY,        \* window.scrollY
    navScrolled,    \* #navbar carries class scrolled
    menuOpen,       \* #mobileMenu carries class is-open
    ariaExpanded,   \* aria-expanded of #navToggle
    ariaHidden,     \* aria-hidden of #mobileMenu
    bodyOverflow,   \* document.body.style.overflow
    toggleFocused,  \* #navToggle has the focus
    menuSet         \* openMobileMenu or closeMobileMenu has run

carouselVars == <<cardsLength, currentIndex, autoPlayTimer, touchStartX, intervals,
                  hovering, reducedMotion, argIndex, prevIndex, sinceManual,
                  dotActive, dotSelected>>

formVars == <<formPresent, value, hasError, fieldError, focused, submitDisabled,
              isLoading, feedbackClass, calls>>

pageVars == <<present, loaded, initialised, uncaught>>

revealVars == <<revealCount, revealed, observed, revealActs>>

counterVars == <<counterTargets, counterObserving, staggers, anims, counterText, starts,
                 frameLag>>

navVars == <<scrollY, navScrolled, menuOpen, ariaExpanded, ariaHidden, bodyOverflow,
             toggleFocused, menuSet>>

scrollVars == <<revealVars, counterVars, navVars>>

vars == <<carouselVars, formVars, pageVars, scrollVars, lastEvent>>

Null == 0
Off == -1
NoManual == Off
Handles == 1..MaxTimers

\* ------------------------------------------------------------ carousel: pure parts

\* JavaScript's % operator: the result takes the sign of the dividend.
JsRem(a, b) == IF a >= 0 THEN a % b ELSE -((-a) % b)

GoToSlideIndexNoWrap(index, n) == JsRem(index, n)

GoToSlideIndexClamp(index, n) == IF index < 0 THEN 0 ELSE IF index >= n THEN n - 1 ELSE index

\* goToSlide, line 471: currentIndex = (index + cards.length) % cards.length
GoToSlideIndex(index, n) == JsRem(index + n, n)

\* setInterval hands out a handle that is not in use.  Reusing the handle of a
\* cleared timer is safe here: startAutoPlay stores every new handle in
\* autoPlayTimer in the same step, so no stale copy of it survives.
FreeHandle(iv) == CHOOSE h \in Handles : iv[h] = Off /\ \A g \in Handles : iv[g] = Off => h <= g

\* clearInterval(handle): no effect for null or for a handle that is not live.
ClearInterval(t, iv) == IF t \in Handles THEN [iv EXCEPT ![t] = Off] ELSE iv

\* startAutoPlay, lines 507-510.
StartAutoPlay(t, iv, reduced) ==
    IF reduced
    THEN [timer |-> t, iv |-> iv]
    ELSE [timer |-> FreeHandle(iv), iv |-> [iv EXCEPT ![FreeHandle(iv)] = AUTO_PLAY_INTERVAL]]

\* resetAutoPlay, lines 512-515.
ResetAutoPlay(t, iv, reduced) == StartAutoPlay(t, ClearInterval(t, iv), reduced)

\* The model can allocate one more timer.
CanStart(iv, reduced) == reduced \/ \E h \in Handles : iv[h] = Off

\* The dots as the loop of lines 448-461 creates them: no class active yet,
\* aria-selected "true" on the first.
NewDotsActive(n) == [i \in 0..(n - 1) |-> FALSE]
NewDotsSelected(n) == [i \in 0..(n - 1) |-> i = 0]

\* ------------------------------------------------------------ carousel: handlers

OnCarouselPage == cardsLength > 0

\* Inputs of the keydown handler: the key, and the track's bounding box with the
\* window height it is compared to (line 499-500).
Keys == {"ArrowLeft", "ArrowRight", "Enter"}
Rects == { [top |-> -300, bottom |-> -100, innerHeight |-> 800],
           [top |-> -400, bottom |->    0, innerHeight |-> 800],
           [top |->  100, bottom |->  500, innerHeight |-> 800],
           [top |->  800, bottom |-> 1200, innerHeight |-> 800],
           [top |->  900, bottom |-> 1300, innerHeight |-> 800] }
\* Screen x coordinates where a touch starts and where it ends.
TouchStartXs == {0, 2 * SWIPE_THRESHOLD + 1}
TouchEndXs == {0, SWIPE_THRESHOLD, SWIPE_THRESHOLD + 1, 2 * SWIPE_THRESHOLD + 1}

MarkDotsAddOnly(index, marks) == [i \in DOMAIN marks |-> marks[i] \/ i = index]

\* The dots loop of goToSlide, lines 475-478, for one of the two attributes:
\* classList.toggle('active', i === currentIndex) and
\* setAttribute('aria-selected', i === currentIndex ? 'true' : 'false').
MarkDots(index, marks) == [i \in DOMAIN marks |-> i = index]

\* goToSlide(index), lines 470-483, on the carousel's index and its dots.
GoToSlide(index) ==
    /\ currentIndex' = GoToSlideIndex(index, cardsLength)
    /\ dotActive' = MarkDots(GoToSlideIndex(index, cardsLength), dotActive)
    /\ dotSelected' = MarkDots(GoToSlideIndex(index, cardsLength), dotSelected)
    /\ argIndex' = index
    /\ prevIndex' = currentIndex

\* A manual navigation: goToSlide(index) followed by resetAutoPlay() (lines
\* 456-457, 487-488, 492-493, 502, 503, 535-537).
Navigate(index, event) ==
    /\ CanStart(ClearInterval(autoPlayTimer, intervals), reducedMotion)
    /\ GoToSlide(index)
    /\ autoPlayTimer' = ResetAutoPlay(autoPlayTimer, intervals, reducedMotion).timer
    /\ intervals' = ResetAutoPlay(autoPlayTimer, intervals, reducedMotion).iv
    /\ lastEvent' = event
    /\ sinceManual' = 0
    /\ UNCHANGED <<cardsLength, hovering, reducedMotion>>

\* A handler run that changes nothing in the carousel.
Ignore(event) ==
    /\ lastEvent' = event
    /\ UNCHANGED <<cardsLength, currentIndex, autoPlayTimer, intervals, hovering,
                   reducedMotion, argIndex, prevIndex, sinceManual, dotActive, dotSelected>>

\* prevBtn click, lines 486-489.
PrevClick ==
    /\ OnCarouselPage
    /\ UNCHANGED <<formVars, pageVars, scrollVars>>
    /\ Navigate(currentIndex - 1, "prev")
    /\ UNCHANGED touchStartX

\* nextBtn click, lines 491-494.
NextClick ==
    /\ OnCarouselPage
    /\ UNCHANGED <<formVars, pageVars, scrollVars>>
    /\ Navigate(currentIndex + 1, "next")
    /\ UNCHANGED touchStartX

\* dot click, lines 455-458: one dot per card, index 0..cards.length-1.
DotClick ==
    /\ OnCarouselPage
    /\ UNCHANGED <<formVars, pageVars, scrollVars>>
    /\ \E index \in 0..(cardsLength - 1) : Navigate(index, "dot")
    /\ UNCHANGED touchStartX

OutOfViewNever(rect) == FALSE

\* The early return of the keydown handler, line 500.
OutOfView(rect) == rect.bottom < 0 \/ rect.top > rect.innerHeight

\* document keydown, lines 497-504, for one key and one position of the track.
KeyDownOn(key, rect) ==
    /\ IF OutOfView(rect)
       THEN Ignore(IF key \in {"ArrowLeft", "ArrowRight"} THEN "arrowOutOfView"
                                                        ELSE "keyOutOfView")
       ELSE CASE key = "ArrowLeft"  -> Navigate(currentIndex - 1, "keyLeft")
              [] key = "ArrowRight" -> Navigate(currentIndex + 1, "keyRight")
              [] OTHER              -> Ignore("keyOther")
    /\ UNCHANGED touchStartX
    /\ UNCHANGED <<formVars, pageVars, scrollVars>>

KeyDown ==
    /\ OnCarouselPage
    /\ \E key \in Keys, rect \in Rects : KeyDownOn(key, rect)

\* track mouseenter, line 518.
MouseEnter ==
    /\ OnCarouselPage
    /\ UNCHANGED <<formVars, pageVars, scrollVars>>
    /\ ~hovering
    /\ hovering' = TRUE
    /\ intervals' = ClearInterval(autoPlayTimer, intervals)
    /\ lastEvent' = "mouseenter"
    /\ UNCHANGED <<cardsLength, currentIndex, autoPlayTimer, touchStartX, reducedMotion,
                   argIndex, prevIndex, sinceManual, dotActive, dotSelected>>

\* track mouseleave, line 519.
MouseLeave ==
    /\ OnCarouselPage
    /\ UNCHANGED <<formVars, pageVars, scrollVars>>
    /\ hovering
    /\ CanStart(intervals, reducedMotion)
    /\ hovering' = FALSE
    /\ autoPlayTimer' = StartAutoPlay(autoPlayTimer, intervals, reducedMotion).timer
    /\ intervals' = StartAutoPlay(autoPlayTimer, intervals, reducedMotion).iv
    /\ lastEvent' = "mouseleave"
    /\ UNCHANGED <<cardsLength, currentIndex, touchStartX, reducedMotion,
                   argIndex, prevIndex, sinceManual, dotActive, dotSelected>>

\* track touchstart, lines 525-527.
TouchStart ==
    /\ OnCarouselPage
    /\ UNCHANGED <<formVars, pageVars, scrollVars>>
    /\ \E x \in TouchStartXs : touchStartX' = x
    /\ Ignore("touchstart")

Abs(x) == IF x < 0 THEN -x ELSE x

IsSwipeAtThreshold(diff) == Abs(diff) >= SWIPE_THRESHOLD

\* "if (Math.abs(diff) > 50)", line 534.
IsSwipe(diff) == Abs(diff) > SWIPE_THRESHOLD

\* track touchend, lines 529-539, for a touch that ends at touchEndX.
TouchEndOn(touchEndX) ==
    /\ LET diff == touchStartX - touchEndX IN
       IF IsSwipe(diff)
       THEN IF diff > 0
            THEN Navigate(currentIndex + 1, "swipeNext")
            ELSE Navigate(currentIndex - 1, "swipePrev")
       ELSE Ignore("touchShort")
    /\ UNCHANGED touchStartX
    /\ UNCHANGED <<formVars, pageVars, scrollVars>>

TouchEnd ==
    /\ OnCarouselPage
    /\ \E touchEndX \in TouchEndXs : TouchEndOn(touchEndX)

\* The setInterval callback of line 509, run for a timer that is due; an
\* interval timer is then due again one interval later.
AutoPlayFire ==
    /\ OnCarouselPage
    /\ UNCHANGED <<formVars, pageVars, scrollVars>>
    /\ \E h \in Handles :
        /\ intervals[h] = 0
        /\ intervals' = [intervals EXCEPT ![h] = AUTO_PLAY_INTERVAL]
    /\ GoToSlide(currentIndex + 1)
    /\ lastEvent' = "auto"
    /\ UNCHANGED <<cardsLength, autoPlayTimer, touchStartX, hovering, reducedMotion,
                   sinceManual>>

\* goToSlide called on its own with any index.
CallGoToSlide ==
    /\ OnCarouselPage
    /\ UNCHANGED <<formVars, pageVars, scrollVars>>
    /\ \E index \in (-MaxArg)..MaxArg : GoToSlide(index)
    /\ lastEvent' = "goToSlide"
    /\ UNCHANGED <<cardsLength, autoPlayTimer, touchStartX, intervals, hovering,
                   reducedMotion, sinceManual>>

\* ------------------------------------------------------------ contact form: pure parts

\* The inputs validateForm checks, in the order it checks them (lines 572, 580, 589).
Validated == <<"nome", "email", "mensagem">>
ValidatedFields == {"nome", "email", "mensagem"}
\* Every field the submit handler reads (lines 686-690).
Fields == ValidatedFields \cup {"empresa", "servico"}
NoField == "none"
NoError == "none"

Whitespace == {" "}

\* String.prototype.trim: drops leading and trailing whitespace.
RECURSIVE TrimStart(_)
TrimStart(s) == IF s # <<>> /\ Head(s) \in Whitespace THEN TrimStart(Tail(s)) ELSE s

RECURSIVE TrimEnd(_)
TrimEnd(s) ==
    IF s # <<>> /\ s[Len(s)] \in Whitespace THEN TrimEnd(SubSeq(s, 1, Len(s) - 1)) ELSE s

Trim(s) == TrimEnd(TrimStart(s))

\* emailRegex, line 581: /^[^\s@]+@[^\s@]+\.[^\s@]+$/ run as an automaton.  State 0
\* is the start, 1 the local part, 2 right after "@", 3 the text before the dot, 4
\* right after the dot, 5 the text after the dot (accepting).
InClass(c) == c \notin Whitespace /\ c # "@"

RegexDelta(q, c) ==
    CASE q = 0 -> IF InClass(c) THEN {1} ELSE {}
      [] q = 1 -> (IF InClass(c) THEN {1} ELSE {}) \cup (IF c = "@" THEN {2} ELSE {})
      [] q = 2 -> IF InClass(c) THEN {3} ELSE {}
      [] q = 3 -> (IF InClass(c) THEN {3} ELSE {}) \cup (IF c = "." THEN {4} ELSE {})
      [] q = 4 -> IF InClass(c) THEN {5} ELSE {}
      [] OTHER -> IF InClass(c) THEN {5} ELSE {}

RECURSIVE RegexRun(_, _)
RegexRun(Q, s) ==
    IF s = <<>> THEN Q
    ELSE RegexRun(UNION {RegexDelta(q, Head(s)) : q \in Q}, Tail(s))

EmailRegexTestNoDot(s) ==
    \E p \in 2..(Len(s) - 1) :
        /\ s[p] = "@"
        /\ \A k \in (1..Len(s)) \ {p} : InClass(s[k])

EmailRegexTest(s) == 5 \in RegexRun({0}, s)

\* The three conditions under which validateForm marks a field (lines 573, 582, 590).
NameTooShort(v) == Len(Trim(v)) < 2
EmailInvalid(v) == ~EmailRegexTest(Trim(v))
MessageTooShort(v) == Len(Trim(v)) < 10

FieldInvalid(f, v) ==
    CASE f = "nome"  -> NameTooShort(v)
      [] f = "email" -> EmailInvalid(v)
      [] OTHER       -> MessageTooShort(v)

\* The message markInvalid is called with for each field (lines 574, 583, 591),
\* in ASCII.
ErrorMessage(f) ==
    CASE f = "nome"  -> "Nome deve ter ao menos 2 caracteres"
      [] f = "email" -> "E-mail invalido"
      [] OTHER       -> "Mensagem deve ter ao menos 10 caracteres"

LastInvalidField(val) ==
    IF \E k \in 1..Len(Validated) : FieldInvalid(Validated[k], val[Validated[k]])
    THEN Validated[CHOOSE k \in 1..Len(Validated) :
                      /\ FieldInvalid(Validated[k], val[Validated[k]])
                      /\ \A j \in (k + 1)..Len(Validated) :
                            ~FieldInvalid(Validated[j], val[Validated[j]])]
    ELSE NoField

\* firstInvalidField of validateForm: the first field, in checking order, that
\* fails its rule ("if (!firstInvalidField) firstInvalidField = ...").
FirstInvalidField(val) ==
    IF \E k \in 1..Len(Validated) : FieldInvalid(Validated[k], val[Validated[k]])
    THEN Validated[CHOOSE k \in 1..Len(Validated) :
                      /\ FieldInvalid(Validated[k], val[Validated[k]])
                      /\ \A j \in 1..(k - 1) :
                            ~FieldInvalid(Validated[j], val[Validated[j]])]
    ELSE NoField

ClearErrorsNone(marks) == marks

\* "Limpa erros anteriores", lines 566-569: has-error comes off every input.
ClearErrors(marks) == [f \in DOMAIN marks |-> FALSE]

\* validateForm, lines 562-597, with markInvalid (lines 604-629) for every field
\* that fails: has-error is first removed from every input (lines 567-569), then
\* each failing field gets has-error and a fresh .field-error span that replaces
\* the one beside it.  The span of a field that passes stays as it is.
ValidateForm(val, spans, marks) ==
    [ valid             |-> \A f \in ValidatedFields : ~FieldInvalid(f, val[f]),
      firstInvalidField |-> FirstInvalidField(val),
      hasError          |-> [f \in ValidatedFields |->
                                ClearErrors(marks)[f] \/ FieldInvalid(f, val[f])],
      fieldError        |-> [f \in ValidatedFields |->
                                IF FieldInvalid(f, val[f]) THEN ErrorMessage(f) ELSE spans[f]] ]

FormDataUntrimmed(val) ==
    [ nome |-> val["nome"], email |-> val["email"], empresa |-> val["empresa"],
      servico |-> val["servico"], mensagem |-> val["mensagem"] ]

\* formData, lines 685-691.
FormData(val) ==
    [ nome     |-> Trim(val["nome"]),
      email    |-> Trim(val["email"]),
      empresa  |-> Trim(val["empresa"]),
      servico  |-> val["servico"],
      mensagem |-> Trim(val["mensagem"]) ]

\* ------------------------------------------------------------ contact form: handlers

\* The values the user gives a field in FormSpec.
Chars(n, c) == [k \in 1..n |-> c]
Samples(f) ==
    CASE f = "nome"     -> { <<>>, <<"A">>, <<" ", "A", "l", " ">> }
      [] f = "email"    -> { <<>>, <<"a", "@", "b">>, <<" ", "a", "@", "b", ".", "c">> }
      [] f = "mensagem" -> { <<>>, <<" ">> \o Chars(9, "m") \o <<" ">>, Chars(10, "m") \o <<" ">> }
      [] f = "empresa"  -> { <<>>, <<" ", "x", " ">> }
      [] OTHER          -> { <<>>, <<"w">> }

\* The blur handler of lines 721-726, run on input f; only inputs that carry the
\* required attribute react, and those are the validated ones.
BlurHandler(f, marks) ==
    IF f \in ValidatedFields /\ Trim(value[f]) = <<>>
    THEN [marks EXCEPT ![f] = TRUE]
    ELSE marks

\* Moving the focus to field f blurs the field that had it.
MoveFocus(f, marks) ==
    IF focused # NoField /\ focused # f THEN BlurHandler(focused, marks) ELSE marks

\* The user puts the cursor into a validated field.
FocusField ==
    /\ formPresent
    /\ \E f \in ValidatedFields :
        /\ focused # f
        /\ focused' = f
        /\ hasError' = MoveFocus(f, hasError)
    /\ lastEvent' = "focus"
    /\ UNCHANGED <<formPresent, value, fieldError, submitDisabled, isLoading, feedbackClass, calls>>
    /\ UNCHANGED <<carouselVars, pageVars, scrollVars>>

\* The focus leaves the form's fields: blur, lines 721-726.
Blur ==
    /\ formPresent
    /\ focused # NoField
    /\ focused' = NoField
    /\ hasError' = BlurHandler(focused, hasError)
    /\ lastEvent' = "blur"
    /\ UNCHANGED <<formPresent, value, fieldError, submitDisabled, isLoading, feedbackClass, calls>>
    /\ UNCHANGED <<carouselVars, pageVars, scrollVars>>

\* The user edits a field: an input event.  The once-listener markInvalid left on
\* the field (lines 625-628) removes has-error and the span it created; a span is
\* beside a field exactly as long as the listener of the markInvalid call that
\* created it has not run.
InputOn(f, v) ==
    /\ v # value[f]
    /\ f \in ValidatedFields => focused = f
    /\ value' = [value EXCEPT ![f] = v]
    /\ IF f \in ValidatedFields /\ fieldError[f] # NoError
       THEN /\ hasError' = [hasError EXCEPT ![f] = FALSE]
            /\ fieldError' = [fieldError EXCEPT ![f] = NoError]
       ELSE UNCHANGED <<hasError, fieldError>>
    /\ lastEvent' = "input"
    /\ UNCHANGED <<formPresent, focused, submitDisabled, isLoading, feedbackClass, calls>>
    /\ UNCHANGED <<carouselVars, pageVars, scrollVars>>

Input ==
    /\ formPresent
    /\ \E f \in Fields : \E v \in Samples(f) : InputOn(f, v)

\* simulateFormSubmission(data), lines 650-658: the call is outstanding until its
\* timer runs.
SimulateFormSubmission(data, outstanding) == Append(outstanding, [data |-> data, due |-> SUBMIT_DELAY])

EnterLoadingNoDisable(dis) == dis

\* submitBtn.disabled = true, line 696.
EnterLoading(dis) == TRUE

\* The form's submit handler up to its await, lines 674-700.  Lines 694-697 are
\* outside the try block: without .form-submit line 695 throws on null, and
\* without #formFeedback line 697 does, after lines 695-696 have run.
SubmitHandler ==
    LET r == ValidateForm(value, fieldError, hasError) IN
    /\ hasError' = IF r.valid THEN r.hasError ELSE MoveFocus(r.firstInvalidField, r.hasError)
    /\ fieldError' = r.fieldError
    /\ CASE ~r.valid ->
            /\ focused' = r.firstInvalidField
            /\ lastEvent' = "submitInvalid"
            /\ UNCHANGED <<submitDisabled, isLoading, feedbackClass, calls, uncaught>>
         [] r.valid /\ "formSubmit" \notin present ->
            /\ uncaught' = TRUE
            /\ lastEvent' = "submitThrew"
            /\ UNCHANGED <<submitDisabled, isLoading, feedbackClass, calls, focused>>
         [] r.valid /\ "formSubmit" \in present /\ "formFeedback" \notin present ->
            /\ isLoading' = TRUE
            /\ submitDisabled' = EnterLoading(submitDisabled)
            /\ uncaught' = TRUE
            /\ lastEvent' = "submitThrew"
            /\ UNCHANGED <<feedbackClass, calls, focused>>
         [] OTHER ->
            /\ isLoading' = TRUE
            /\ submitDisabled' = EnterLoading(submitDisabled)
            /\ feedbackClass' = "form-feedback"
            /\ calls' = SimulateFormSubmission(FormData(value), calls)
            /\ lastEvent' = "submitValid"
            /\ UNCHANGED <<focused, uncaught>>
    /\ UNCHANGED <<formPresent, value>>

\* The largest number of collaborator calls the model lets be outstanding.
CallsFull == Len(calls) >= MaxCalls

\* A submission attempt: the submit button is activated, or Enter is pressed in a
\* field.  The browser dispatches no submit event while the form's submit button
\* is disabled; otherwise the handler of lines 674-716 runs.
SubmitAttempt ==
    /\ formPresent
    /\ ~CallsFull
    /\ IF submitDisabled
       THEN /\ lastEvent' = "submitBlocked"
            /\ UNCHANGED <<formVars, uncaught>>
       ELSE SubmitHandler
    /\ UNCHANGED <<carouselVars, present, loaded, initialised, scrollVars>>

CleanupOnSuccessOnly(outcome) == outcome # "success"

\* The finally block, lines 711-715, runs whatever the outcome.
StaysLoading(outcome) == FALSE

\* How the collaborator's call can end: it resolves with success: true (all the
\* stub of lines 655-657 does), resolves with success: false, or rejects (what a
\* fetch put in its place, lines 634-645, can do).
Outcomes == {"success", "failure", "rejected"}

SucceededIfResolved(outcome) == outcome # "rejected"

\* "if (result.success)", line 702; a rejection goes to the catch block, line 708.
Succeeded(outcome) == outcome = "success"

\* showFeedback(type, message), lines 665-671: the class names the type, and the
\* message is set in the same call.
ShowFeedback(type) == IF type = "success" THEN "form-feedback success"
                                          ELSE "form-feedback error"

FormResetAlways(outcome, val) == [f \in Fields |-> <<>>]

\* form.reset(), line 704, stands in the success branch only; it empties the
\* fields and fires no input event.
FormReset(outcome, val) == IF Succeeded(outcome) THEN [f \in Fields |-> <<>>] ELSE val

\* The form's submit handler from its await on, lines 700-715, for the call that
\* is due.
SettleSubmission ==
    /\ formPresent
    /\ \E k \in 1..Len(calls), outcome \in Outcomes :
        /\ calls[k].due = 0
        /\ calls' = SubSeq(calls, 1, k - 1) \o SubSeq(calls, k + 1, Len(calls))
        /\ feedbackClass' = IF Succeeded(outcome) THEN ShowFeedback("success")
                                                  ELSE ShowFeedback("error")
        /\ value' = FormReset(outcome, value)
        /\ lastEvent' = CASE outcome = "success" -> "submitSucceeded"
                           [] outcome = "failure" -> "submitFailed"
                           [] OTHER               -> "submitRejected"
        /\ isLoading' = StaysLoading(outcome)
        /\ submitDisabled' = StaysLoading(outcome)
    /\ UNCHANGED <<formPresent, hasError, fieldError, focused>>
    /\ UNCHANGED <<carouselVars, pageVars, scrollVars>>

\* ------------------------------------------------------------ time

TimerDue ==
    \/ \E h \in Handles : intervals[h] = 0
    \/ \E k \in 1..Len(calls) : calls[k].due = 0

Elapse(ms) == IF ms = Off THEN Off ELSE ms - TickMs

\* TickMs milliseconds pass; no timer is overdue.
Tick ==
    /\ ~TimerDue
    /\ intervals' = [h \in Handles |-> Elapse(intervals[h])]
    /\ sinceManual' = IF sinceManual = NoManual THEN NoManual
                      ELSE Min(sinceManual + TickMs, AUTO_PLAY_INTERVAL)
    /\ calls' = [k \in 1..Len(calls) |-> [calls[k] EXCEPT !.due = Elapse(calls[k].due)]]
    /\ UNCHANGED <<cardsLength, currentIndex, autoPlayTimer, touchStartX, hovering,
                   reducedMotion, lastEvent, argIndex, prevIndex, dotActive, dotSelected>>
    /\ UNCHANGED <<formPresent, value, hasError, fieldError, focused, submitDisabled,
                   isLoading, feedbackClass>>
    /\ UNCHANGED <<pageVars, scrollVars>>

\* ------------------------------------------------------------ scroll reveal

UnobserveNothing(obs, target) == obs

\* observer.unobserve(entry.target), line 286.
Unobserve(obs, target) == obs \ {target}

\* The entries one callback can get: any list of at most MaxBatch entries, each
\* for an element the observer observes, intersecting or not.  An element can
\* come more than once in a list.
RevealEntries ==
    UNION {[1..n -> [target : observed, isIntersecting : BOOLEAN]] : n \in 1..MaxBatch}

\* The observer's callback, lines 281-289, entry by entry from entry k on.
RECURSIVE RevealFrom(_, _, _)
RevealFrom(entries, k, state) ==
    IF k > Len(entries) THEN state
    ELSE RevealFrom(entries, k + 1,
            IF entries[k].isIntersecting
            THEN [revealed |-> state.revealed \cup {entries[k].target},
                  observed |-> Unobserve(state.observed, entries[k].target),
                  hit      |-> state.hit \cup {entries[k].target}]
            ELSE state)

\* One call of the observer's callback.
RevealCallback ==
    /\ observed # {}
    /\ \E entries \in RevealEntries :
        LET r == RevealFrom(entries, 1, [revealed |-> revealed, observed |-> observed,
                                         hit |-> {}]) IN
        /\ revealed' = r.revealed
        /\ observed' = r.observed
        /\ revealActs' = [e \in DOMAIN revealActs |->
                             revealActs[e] + (IF e \in r.hit THEN 1 ELSE 0)]
        /\ lastEvent' = IF r.hit = {} THEN "revealNone" ELSE "reveal"
    /\ UNCHANGED revealCount
    /\ UNCHANGED <<carouselVars, formVars, pageVars, counterVars, navVars>>

\* ------------------------------------------------------------ counters

\* The delay between two counters, line 412, and the default duration of
\* animateCounter, line 370, in ms.
STAGGER_DELAY == 150
COUNTER_DURATION == 2000

\* Time on the counters' page passes in steps of this many ms.
CounterTickMs == Gcd(STAGGER_DELAY, COUNTER_DURATION)

\* The data-target values of the page's counters.
Targets == {0, 7, 1234}

\* The time a frame callback gets is the start of the frame, which can be
\* earlier than a performance.now() read before the callback runs.
FrameLags == {0, CounterTickMs}

NoText == [negative |-> FALSE, groups |-> <<>>]

Max(a, b) == IF a >= b THEN a ELSE b

ClampUpperOnly(val, lo, hi) == Min(val, hi)

\* clamp, line 69.
Clamp(val, lo, hi) == Min(Max(val, lo), hi)

Cube(x) == x * x * x

\* Times are multiples of CounterTickMs, so elapsed / duration is a fraction with
\* denominator ProgressSteps; the arithmetic below is exact on such fractions
\* and stays within 32 bits.
Steps(ms) == ms \div CounterTickMs
ProgressSteps == Steps(COUNTER_DURATION)

\* progress, line 383, as a number of ProgressSteps-ths.
Progress(elapsed) == Clamp(Steps(elapsed), 0, ProgressSteps)

\* easeOutCubic, line 380, as a numerator over Cube(ProgressSteps).
EaseOutCubic(p) == Cube(ProgressSteps) - Cube(ProgressSteps - p)

\* Math.round of num / den: the integer below num / den + 1/2.
MathRound(num, den) == (2 * num + den) \div (2 * den)

\* current, line 385.
Current(target, p) == MathRound(target * EaseOutCubic(p), Cube(ProgressSteps))

\* toLocaleString('pt-BR') of an integer: its digits in groups of three,
\* separated by ".", after a "-" for a negative number.
RECURSIVE Groups(_)
Groups(n) == IF n < 1000 THEN <<n>> ELSE Append(Groups(n \div 1000), n % 1000)

ToLocaleString(n) == [negative |-> n < 0, groups |-> Groups(Abs(n))]

\* What update writes into el.textContent for animation a, lines 387 and 393.
UpdateText(a) ==
    LET p == Progress(a.elapsed - frameLag) IN
    IF p < ProgressSteps
    THEN ToLocaleString(Current(counterTargets[a.counter], p))
    ELSE ToLocaleString(counterTargets[a.counter])

\* update, lines 381-395, for animation a: it asks for another frame as long as
\* progress < 1.
Update(a) ==
    [a EXCEPT !.running = Progress(a.elapsed - frameLag) < ProgressSteps,
              !.framed = TRUE,
              !.at = a.elapsed - frameLag]

\* animateCounter(el, target), lines 370-398: start is now, and the first frame
\* is asked for.
AnimateCounter(c) == [counter |-> c, elapsed |-> 0, running |-> TRUE, framed |-> FALSE, at |-> 0]

\* counters.forEach of lines 406-412: one setTimeout per counter.
ScheduleAll(pending) ==
    pending \o [i \in 1..Len(counterTargets) |-> [counter |-> i, due |-> (i - 1) * STAGGER_DELAY]]

\* The entries one callback can get: at most MaxBatch, all for the first
\* .stat-card, intersecting or not.
CounterEntries == UNION {[1..n -> BOOLEAN] : n \in 1..MaxBatch}

\* The observer's callback, lines 403-417, entry by entry from entry k on.
\* observer.disconnect() does not end the forEach.
RECURSIVE ScheduleFrom(_, _, _)
ScheduleFrom(entries, k, pending) ==
    IF k > Len(entries) THEN pending
    ELSE ScheduleFrom(entries, k + 1, IF entries[k] THEN ScheduleAll(pending) ELSE pending)

\* One call of the counters' observer callback.
CounterCallback ==
    /\ counterObserving
    /\ \E entries \in CounterEntries :
        /\ staggers' = ScheduleFrom(entries, 1, staggers)
        /\ counterObserving' = ~(\E k \in 1..Len(entries) : entries[k])
        /\ lastEvent' = IF \E k \in 1..Len(entries) : entries[k] THEN "countersSeen"
                                                                 ELSE "countersUnseen"
    /\ UNCHANGED <<counterTargets, anims, counterText, starts, frameLag>>
    /\ UNCHANGED <<carouselVars, formVars, pageVars, revealVars, navVars>>

\* A setTimeout callback of line 410 runs: the first one that is due.
StaggerFire ==
    /\ \E k \in 1..Len(staggers) :
        /\ staggers[k].due = 0
        /\ \A j \in 1..(k - 1) : staggers[j].due # 0
        /\ staggers' = SubSeq(staggers, 1, k - 1) \o SubSeq(staggers, k + 1, Len(staggers))
        /\ anims' = Append(anims, AnimateCounter(staggers[k].counter))
        /\ starts' = [starts EXCEPT ![staggers[k].counter] = @ + 1]
    /\ lastEvent' = "animate"
    /\ UNCHANGED <<counterTargets, counterObserving, counterText, frameLag>>
    /\ UNCHANGED <<carouselVars, formVars, pageVars, revealVars, navVars>>

\* The animations that have asked for a frame and write into counter c.
Writers(c) == {k \in 1..Len(anims) : anims[k].running /\ anims[k].counter = c}

Last(ks) == CHOOSE k \in ks : \A j \in ks : j <= k

\* An animation frame: the callbacks asked for run in the order they were asked
\* for, so the last one that writes into an element decides its text.
Frame ==
    /\ \E k \in 1..Len(anims) : anims[k].running
    /\ anims' = [k \in 1..Len(anims) |-> IF anims[k].running THEN Update(anims[k])
                                                             ELSE anims[k]]
    /\ counterText' = [c \in DOMAIN counterText |->
                          IF Writers(c) = {} THEN counterText[c]
                          ELSE UpdateText(anims[Last(Writers(c))])]
    /\ lastEvent' = "frame"
    /\ UNCHANGED <<counterTargets, counterObserving, staggers, starts, frameLag>>
    /\ UNCHANGED <<carouselVars, formVars, pageVars, revealVars, navVars>>

\* CounterTickMs milliseconds pass on the counters' page; no timeout is overdue.
\* An animation past its duration is at progress 1 however late its frame comes.
CounterTick ==
    /\ \A k \in 1..Len(staggers) : staggers[k].due # 0
    /\ staggers # <<>> \/ \E k \in 1..Len(anims) : anims[k].running
    /\ staggers' = [k \in 1..Len(staggers) |->
                       [staggers[k] EXCEPT !.due = @ - CounterTickMs]]
    /\ anims' = [k \in 1..Len(anims) |->
                    IF anims[k].running
                    THEN [anims[k] EXCEPT !.elapsed = Min(@ + CounterTickMs,
                                                          COUNTER_DURATION + CounterTickMs)]
                    ELSE anims[k]]
    /\ UNCHANGED <<counterTargets, counterObserving, counterText, starts, frameLag, lastEvent>>
    /\ UNCHANGED <<carouselVars, formVars, pageVars, revealVars, navVars>>

\* ------------------------------------------------------------ navbar

\* px from the top, line 199.
SCROLL_THRESHOLD == 80

\* Scroll positions around the threshold.
ScrollYs == {0, SCROLL_THRESHOLD, SCROLL_THRESHOLD + 1}
NavKeys == {"Escape", "Enter"}

\* handleNavScroll, lines 200-206.
HandleNavScroll(y) == y > SCROLL_THRESHOLD

\* openMobileMenu, lines 228-234.
OpenMobileMenu == [menuOpen |-> TRUE, ariaExpanded |-> "true", ariaHidden |-> "false",
                   bodyOverflow |-> "hidden"]

CloseMobileMenuKeepLock == [menuOpen |-> FALSE, ariaExpanded |-> "false",
                            ariaHidden |-> "true", bodyOverflow |-> bodyOverflow]

\* closeMobileMenu, lines 236-241.
CloseMobileMenu == [menuOpen |-> FALSE, ariaExpanded |-> "false", ariaHidden |-> "true",
                    bodyOverflow |-> ""]

\* The menu is put into state m.
SetMenu(m) ==
    /\ menuOpen' = m.menuOpen
    /\ ariaExpanded' = m.ariaExpanded
    /\ ariaHidden' = m.ariaHidden
    /\ bodyOverflow' = m.bodyOverflow
    /\ menuSet' = TRUE

\* window scroll, line 208.
NavScroll ==
    /\ \E y \in ScrollYs :
        /\ scrollY' = y
        /\ navScrolled' = HandleNavScroll(y)
    /\ lastEvent' = "scroll"
    /\ UNCHANGED <<menuOpen, ariaExpanded, ariaHidden, bodyOverflow, toggleFocused, menuSet>>
    /\ UNCHANGED <<carouselVars, formVars, pageVars, revealVars, counterVars>>

\* navToggle click: toggleMobileMenu, lines 219-227.  Whether a click gives the
\* button the focus depends on the browser.
ToggleClick ==
    /\ SetMenu(IF menuOpen THEN CloseMobileMenu ELSE OpenMobileMenu)
    /\ toggleFocused' \in {toggleFocused, TRUE}
    /\ lastEvent' = "toggle"
    /\ UNCHANGED <<scrollY, navScrolled>>
    /\ UNCHANGED <<carouselVars, formVars, pageVars, revealVars, counterVars>>

\* Click on a .mobile-nav-link or .mobile-nav-cta, lines 246-248.  Whether the
\* click moves the focus to the link depends on the browser.
MenuLinkClick ==
    /\ SetMenu(CloseMobileMenu)
    /\ toggleFocused' \in {toggleFocused, FALSE}
    /\ lastEvent' = "menuLink"
    /\ UNCHANGED <<scrollY, navScrolled>>
    /\ UNCHANGED <<carouselVars, formVars, pageVars, revealVars, counterVars>>

\* document keydown, lines 251-256, for one key.
NavKeyDownOn(key) ==
    /\ IF key = "Escape" /\ menuOpen
       THEN /\ SetMenu(CloseMobileMenu)
            /\ toggleFocused' = TRUE
       ELSE UNCHANGED <<menuOpen, ariaExpanded, ariaHidden, bodyOverflow, toggleFocused,
                        menuSet>>
    /\ lastEvent' = key
    /\ UNCHANGED <<scrollY, navScrolled>>
    /\ UNCHANGED <<carouselVars, formVars, pageVars, revealVars, counterVars>>

NavKeyDown == \E key \in NavKeys : NavKeyDownOn(key)

\* ------------------------------------------------------------ page load

\* The elements the code looks up without testing the result: #testimonialDots
\* (line 436, used at 460), #formFeedback (line 554, used at 667 and 697),
\* .form-submit (line 694, used at 695), .cursor-dot and .cursor-ring (lines
\* 98-99, used at 114 and 120).
Optional == {"testimonialDots", "formFeedback", "formSubmit", "cursorDot", "cursorRing"}

\* The init functions of the listener, in calling order (lines 948, 954, 955),
\* on a page that has #cursor, the carousel's track, buttons and cards, and
\* #contatoForm.
LoadOrder == <<"cursor", "carousel", "form">>

\* initCursor calls updateCursor (line 135), which writes dot.style and
\* ring.style: a TypeError on null.
InitCursorThrows(els) == "cursorDot" \notin els \/ "cursorRing" \notin els

\* The dots loop calls dotsContainer.appendChild for the first card, line 460.
InitCarouselThrows(els) == "testimonialDots" \notin els

\* initContactForm only looks its elements up.
InitFormThrows(els) == FALSE

Throws(c, els) ==
    CASE c = "cursor"   -> InitCursorThrows(els)
      [] c = "carousel" -> InitCarouselThrows(els)
      [] OTHER          -> InitFormThrows(els)

\* The init functions the listener gets through: an exception in one ends the
\* listener, and the functions after it are never called.
Returned(els) ==
    {LoadOrder[k] : k \in {j \in 1..Len(LoadOrder) :
                              \A i \in 1..j : ~Throws(LoadOrder[i], els)}}

\* The DOMContentLoaded listener, lines 943-963.
DomContentLoaded ==
    /\ ~loaded
    /\ loaded' = TRUE
    /\ initialised' = Returned(present)
    /\ uncaught' = (Returned(present) # {LoadOrder[k] : k \in 1..Len(LoadOrder)})
    /\ IF "carousel" \in Returned(present)
       THEN LET t == StartAutoPlay(autoPlayTimer, intervals, reducedMotion) IN
            /\ dotActive' = MarkDots(GoToSlideIndex(0, cardsLength), NewDotsActive(cardsLength))
            /\ dotSelected' = MarkDots(GoToSlideIndex(0, cardsLength),
                                       NewDotsSelected(cardsLength))
            /\ autoPlayTimer' = t.timer
            /\ intervals' = t.iv
       ELSE UNCHANGED <<dotActive, dotSelected, autoPlayTimer, intervals>>
    /\ formPresent' = ("form" \in Returned(present))
    /\ lastEvent' = "load"
    /\ UNCHANGED <<cardsLength, currentIndex, touchStartX, hovering, reducedMotion,
                   argIndex, prevIndex, sinceManual>>
    /\ UNCHANGED <<value, hasError, fieldError, focused, submitDisabled, isLoading,
                   feedbackClass, calls, present>>
    /\ UNCHANGED scrollVars

\* ------------------------------------------------------------ specification

NoIntervals == [h \in Handles |-> Off]

\* A page without #contatoForm: initContactForm returns at line 556.
NoForm ==
    /\ formPresent = FALSE
    /\ value = [f \in Fields |-> <<>>]
    /\ hasError = [f \in ValidatedFields |-> FALSE]
    /\ fieldError = [f \in ValidatedFields |-> NoError]
    /\ focused = NoField
    /\ submitDisabled = FALSE
    /\ isLoading = FALSE
    /\ feedbackClass = "form-feedback"
    /\ calls = <<>>

\* A page without .reveal-up elements.
NoReveal ==
    /\ revealCount = 0
    /\ revealed = {}
    /\ observed = {}
    /\ revealActs = <<>>

\* A page without #navbar: initNavbar returns at line 196.
NoNavbar ==
    /\ scrollY = 0
    /\ navScrolled = FALSE
    /\ menuOpen = FALSE
    /\ ariaExpanded = "false"
    /\ ariaHidden = "true"
    /\ bodyOverflow = ""
    /\ toggleFocused = FALSE
    /\ menuSet = FALSE

\* A page without counters: initCounters returns at line 360.
NoCounters ==
    /\ counterTargets = <<>>
    /\ counterObserving = FALSE
    /\ staggers = <<>>
    /\ anims = <<>>
    /\ counterText = <<>>
    /\ starts = <<>>
    /\ frameLag = 0

\* A page without carousel: initTestimonialsCarousel returns at line 438 or 441.
CarouselIdle ==
    /\ cardsLength = 0
    /\ currentIndex = 0
    /\ autoPlayTimer = Null
    /\ intervals = NoIntervals
    /\ touchStartX = 0
    /\ hovering = FALSE
    /\ argIndex = 0
    /\ prevIndex = 0
    /\ sinceManual = NoManual
    /\ dotActive = <<>>
    /\ dotSelected = <<>>

NoCarousel ==
    /\ reducedMotion = FALSE
    /\ CarouselIdle

\* A page whose DOMContentLoaded listener has run to its end, with every
\* optional element in the document.
PageLoaded ==
    /\ present = Optional
    /\ loaded = TRUE
    /\ initialised = {LoadOrder[k] : k \in 1..Len(LoadOrder)}
    /\ uncaught = FALSE

\* initTestimonialsCarousel on a page with 1..MaxCards cards: lines 443-444, then
\* goToSlide(0) and startAutoPlay() (lines 542-543).
CarouselInit ==
    /\ cardsLength \in 1..MaxCards
    /\ reducedMotion \in BOOLEAN
    /\ currentIndex = GoToSlideIndex(0, cardsLength)
    /\ autoPlayTimer = StartAutoPlay(Null, NoIntervals, reducedMotion).timer
    /\ intervals = StartAutoPlay(Null, NoIntervals, reducedMotion).iv
    /\ touchStartX = 0
    /\ hovering = FALSE
    /\ lastEvent = "init"
    /\ argIndex = 0
    /\ prevIndex = 0
    /\ sinceManual = NoManual
    /\ dotActive = MarkDots(GoToSlideIndex(0, cardsLength), NewDotsActive(cardsLength))
    /\ dotSelected = MarkDots(GoToSlideIndex(0, cardsLength), NewDotsSelected(cardsLength))
    /\ NoForm
    /\ PageLoaded
    /\ NoReveal
    /\ NoCounters
    /\ NoNavbar

\* initContactForm on a page with an empty form.
FormInit ==
    /\ NoCarousel
    /\ PageLoaded
    /\ NoReveal
    /\ NoCounters
    /\ NoNavbar
    /\ formPresent = TRUE
    /\ value = [f \in Fields |-> <<>>]
    /\ hasError = [f \in ValidatedFields |-> FALSE]
    /\ fieldError = [f \in ValidatedFields |-> NoError]
    /\ focused = NoField
    /\ submitDisabled = FALSE
    /\ isLoading = FALSE
    /\ feedbackClass = "form-feedback"
    /\ calls = <<>>
    /\ lastEvent = "init"

CarouselNext ==
    \/ PrevClick
    \/ NextClick
    \/ DotClick
    \/ KeyDown
    \/ MouseEnter
    \/ MouseLeave
    \/ TouchStart
    \/ TouchEnd
    \/ AutoPlayFire
    \/ Tick

FormNext ==
    \/ FocusField
    \/ Blur
    \/ Input
    \/ SubmitAttempt
    \/ SettleSubmission
    \/ Tick

\* The page with the carousel.
CarouselSpec == CarouselInit /\ [][CarouselNext]_vars

\* The carousel under the keyboard: the pointer only hovers, keys do the rest.
KeyboardNext ==
    \/ KeyDown
    \/ MouseEnter
    \/ MouseLeave
    \/ AutoPlayFire
    \/ Tick

KeyboardSpec == CarouselInit /\ [][KeyboardNext]_vars

\* The carousel under the finger: touches, and the timer.
TouchNext ==
    \/ TouchStart
    \/ TouchEnd
    \/ AutoPlayFire
    \/ Tick

TouchSpec == CarouselInit /\ [][TouchNext]_vars

\* The page with the contact form.
FormSpec == FormInit /\ [][FormNext]_vars

\* The same page, with the host's scheduling: time passes, and a timer that is due
\* runs its callback.
FormFairSpec == FormSpec /\ WF_vars(Tick) /\ WF_vars(SettleSubmission)

\* goToSlide as a function of its argument: any index, on any carousel.
GoToSlideSpec == CarouselInit /\ [][CallGoToSlide]_vars

\* validateForm as a function of the fields: the form holds one field with any
\* value up to the bound and sample values in the other two when it is submitted.
Strings(alphabet, n) == UNION {[1..k -> alphabet] : k \in 0..n}
Explored(f) ==
    CASE f = "nome"  -> Strings({"A", "l", " "}, MaxNomeLen)
      [] f = "email" -> Strings({"a", "@", ".", " "}, MaxEmailLen)
                            \cup {<<"a", "@", "b", ".", "c">>, <<"a", "@", "b">>}
      [] OTHER       -> Strings({"m", " "}, MaxMensagemLen)

Filled(n, e, m) ==
    [f \in Fields |-> CASE f = "nome" -> n [] f = "email" -> e [] f = "mensagem" -> m
                        [] OTHER -> <<>>]

ValidateInit ==
    /\ NoCarousel
    /\ PageLoaded
    /\ NoReveal
    /\ NoCounters
    /\ NoNavbar
    /\ formPresent = TRUE
    /\ \/ \E n \in Explored("nome"), e \in Samples("email"), m \in Samples("mensagem") :
            value = Filled(n, e, m)
       \/ \E n \in Samples("nome"), e \in Explored("email"), m \in Samples("mensagem") :
            value = Filled(n, e, m)
       \/ \E n \in Samples("nome"), e \in Samples("email"), m \in Explored("mensagem") :
            value = Filled(n, e, m)
    /\ hasError = [f \in ValidatedFields |-> FALSE]
    /\ fieldError = [f \in ValidatedFields |-> NoError]
    /\ focused = NoField
    /\ submitDisabled = FALSE
    /\ isLoading = FALSE
    /\ feedbackClass = "form-feedback"
    /\ calls = <<>>
    /\ lastEvent = "init"

ValidateSpec == ValidateInit /\ [][SubmitAttempt]_vars

\* The elements that get is-revealed at init: all of them under reduced motion,
\* lines 267-269.
InitRevealed(reduced, n) == IF reduced THEN 1..n ELSE {}

InitObservedAlways(reduced, n) == 1..n

\* The elements observed at init: line 297, not reached under reduced motion
\* (return, line 270).
InitObserved(reduced, n) == IF reduced THEN {} ELSE 1..n

\* initScrollAnimations on a page with up to MaxReveal .reveal-up elements:
\* lines 267-271 under reduced motion, line 297 otherwise.
RevealInit ==
    /\ reducedMotion \in BOOLEAN
    /\ CarouselIdle
    /\ NoForm
    /\ PageLoaded
    /\ NoCounters
    /\ NoNavbar
    /\ revealCount \in 0..MaxReveal
    /\ revealed = InitRevealed(reducedMotion, revealCount)
    /\ observed = InitObserved(reducedMotion, revealCount)
    /\ revealActs = [e \in 1..revealCount |-> 0]
    /\ lastEvent = "init"

\* The page with the .reveal-up elements.
RevealSpec == RevealInit /\ [][RevealCallback]_vars

\* initCounters on a page with up to MaxCounters counters and a .stat-card:
\* nothing is observed under reduced motion (line 357) or without counters
\* (line 360).
CounterInit ==
    /\ reducedMotion \in BOOLEAN
    /\ CarouselIdle
    /\ NoForm
    /\ PageLoaded
    /\ NoReveal
    /\ NoNavbar
    /\ counterTargets \in UNION {[1..n -> Targets] : n \in 0..MaxCounters}
    /\ counterObserving = (~reducedMotion /\ Len(counterTargets) > 0)
    /\ staggers = <<>>
    /\ anims = <<>>
    /\ counterText = [c \in 1..Len(counterTargets) |-> NoText]
    /\ starts = [c \in 1..Len(counterTargets) |-> 0]
    /\ frameLag \in FrameLags
    /\ lastEvent = "init"

CounterNext ==
    \/ CounterCallback
    \/ StaggerFire
    \/ Frame
    \/ CounterTick

\* The page with the counters.
CounterSpec == CounterInit /\ [][CounterNext]_vars

\* initNavbar on a page with #navbar, #navToggle and #mobileMenu: the page can
\* be scrolled already, and the attributes start as the markup has them.
NavbarInit ==
    /\ NoCarousel
    /\ NoForm
    /\ PageLoaded
    /\ NoReveal
    /\ NoCounters
    /\ scrollY \in ScrollYs
    /\ navScrolled = HandleNavScroll(scrollY)
    /\ menuOpen \in BOOLEAN
    /\ ariaExpanded \in {"true", "false"}
    /\ ariaHidden \in {"true", "false"}
    /\ bodyOverflow \in {"", "hidden"}
    /\ toggleFocused = FALSE
    /\ menuSet = FALSE
    /\ lastEvent = "init"

NavbarNext ==
    \/ NavScroll
    \/ ToggleClick
    \/ MenuLinkClick
    \/ NavKeyDown

\* The page with the navbar.
NavbarSpec == NavbarInit /\ [][NavbarNext]_vars

\* What the browser can have put into the fields before the script runs: nothing,
\* or a form it restored or filled in.
Prefilled == { [f \in Fields |-> <<>>],
               Filled(<<"A", "l">>, <<"a", "@", "b", ".", "c">>, Chars(10, "m")) }

\* A document with cursor, carousel and form, before DOMContentLoaded; any of
\* the optional elements may be missing.
PageInit ==
    /\ present \in SUBSET Optional
    /\ loaded = FALSE
    /\ initialised = {}
    /\ uncaught = FALSE
    /\ cardsLength \in 1..MaxCards
    /\ reducedMotion \in BOOLEAN
    /\ currentIndex = 0
    /\ autoPlayTimer = Null
    /\ intervals = NoIntervals
    /\ touchStartX = 0
    /\ hovering = FALSE
    /\ argIndex = 0
    /\ prevIndex = 0
    /\ sinceManual = NoManual
    /\ dotActive = <<>>
    /\ dotSelected = <<>>
    /\ formPresent = FALSE
    /\ value \in Prefilled
    /\ hasError = [f \in ValidatedFields |-> FALSE]
    /\ fieldError = [f \in ValidatedFields |-> NoError]
    /\ focused = NoField
    /\ submitDisabled = FALSE
    /\ isLoading = FALSE
    /\ feedbackClass = "form-feedback"
    /\ calls = <<>>
    /\ NoReveal
    /\ NoCounters
    /\ NoNavbar
    /\ lastEvent = "none"

PageNext ==
    \/ DomContentLoaded
    \/ SubmitAttempt
    \/ SettleSubmission
    \/ AutoPlayFire
    \/ Tick

\* The whole page from its load on, with the form submitted as the browser
\* filled it.
PageSpec == PageInit /\ [][PageNext]_vars

\* ------------------------------------------------------------ properties

\* C1: after a manual navigation, a timer-driven advance comes no earlier than
\* one full AUTO_PLAY_INTERVAL later.  An advance that has just run (lastEvent =
\* "auto") with a manual navigation before it ran at least AUTO_PLAY_INTERVAL ms
\* after that navigation.
C1_AutoAdvanceAfterFullInterval ==
    (lastEvent = "auto" /\ sinceManual # NoManual) => sinceManual >= AUTO_PLAY_INTERVAL

\* C2: no timer-driven advance runs while the pointer is inside the track
\* (between mouseenter and the next mouseleave), whatever else happens meanwhile.
C2_NoAutoAdvanceWhileHovering ==
    lastEvent = "auto" => ~hovering

\* C3: at most one collaborator call is outstanding at any time; a submission
\* attempt made while the submit control is disabled starts none.
C3_SingleOutstandingCall ==
    /\ Len(calls) <= 1
    /\ lastEvent = "submitBlocked" => (submitDisabled /\ Len(calls) = 1)

C3_Witness ==
    lastEvent = "submitBlocked" /\ submitDisabled /\ Len(calls) = 1

InLoadingState == isLoading \/ submitDisabled

\* C4: a submission that enters the loading state leaves it: the state is
\* cleared when the call settles, whether it succeeded, failed or rejected, and
\* under the host's scheduling every call does settle.
C4_LoadingStateIsLeft ==
    /\ [](lastEvent \in {"submitSucceeded", "submitFailed", "submitRejected"} => ~InLoadingState)
    /\ (InLoadingState ~> ~InLoadingState)

C4_Witness ==
    lastEvent = "submitRejected" /\ ~isLoading /\ ~submitDisabled /\ calls = <<>>

\* A value without its leading and trailing whitespace: what lies between its
\* first and its last character that is not whitespace.
Solid(v) == {k \in 1..Len(v) : v[k] \notin Whitespace}
Trimmed(v) ==
    IF Solid(v) = {} THEN <<>>
    ELSE SubSeq(v, CHOOSE a \in Solid(v) : \A k \in Solid(v) : a <= k,
                   CHOOSE b \in Solid(v) : \A k \in Solid(v) : k <= b)

\* C5: submitting a form whose fields all pass starts exactly one collaborator
\* call, carrying the trimmed values of the text fields, and the submit control
\* is disabled as long as a call is outstanding.
C5_ValidSubmitCallsOnce ==
    /\ lastEvent = "submitValid" =>
        /\ Len(calls) = 1
        /\ calls[1].data = [ nome     |-> Trimmed(value["nome"]),
                             email    |-> Trimmed(value["email"]),
                             empresa  |-> Trimmed(value["empresa"]),
                             servico  |-> value["servico"],
                             mensagem |-> Trimmed(value["mensagem"]) ]
    /\ calls # <<>> => submitDisabled

C5_Witness ==
    /\ lastEvent = "submitValid"
    /\ Len(calls) = 1
    /\ value["nome"] = <<" ", "A", "l", " ">>
    /\ calls[1].data.nome = <<"A", "l">>
    /\ value["empresa"] = <<" ", "x", " ">>
    /\ submitDisabled

\* local-part@domain-with-dot: one "@", with text before it, no whitespace, and
\* after it a dot that has text on both sides.
EmailWellFormed(e) ==
    \E p \in 1..Len(e) :
        /\ e[p] = "@"
        /\ p > 1
        /\ \A k \in (1..Len(e)) \ {p} : e[k] # "@" /\ e[k] \notin Whitespace
        /\ \E q \in (p + 2)..(Len(e) - 1) : e[q] = "."

\* The three rules of the form, on the untouched value of a field.
RuleHolds(f) ==
    CASE f = "nome"  -> Len(Trimmed(value[f])) >= 2
      [] f = "email" -> EmailWellFormed(Trimmed(value[f]))
      [] OTHER       -> Len(Trimmed(value[f])) >= 10

FirstBroken ==
    IF ~RuleHolds("nome") THEN "nome"
    ELSE IF ~RuleHolds("email") THEN "email"
    ELSE "mensagem"

\* C6: after a submission attempt that fails validation every field that breaks
\* its rule is marked and has its message beside it, the focus is on the first
\* such field in the order nome, email, mensagem, no collaborator call is made
\* and the submit control is not in the loading state.
C6_InvalidSubmitAborts ==
    lastEvent = "submitInvalid" =>
        /\ \E f \in ValidatedFields : ~RuleHolds(f)
        /\ \A f \in ValidatedFields :
              ~RuleHolds(f) => (hasError[f] /\ fieldError[f] = ErrorMessage(f))
        /\ focused = FirstBroken
        /\ calls = <<>>
        /\ ~isLoading
        /\ ~submitDisabled

C6_Witness ==
    /\ lastEvent = "submitInvalid"
    /\ RuleHolds("nome")
    /\ ~RuleHolds("email")
    /\ ~RuleHolds("mensagem")
    /\ focused = "email"
    /\ hasError["mensagem"]

Submitted == lastEvent \in {"submitValid", "submitInvalid"}

\* C7: validateForm reports the form valid exactly when the three rules hold
\* (and marks exactly the fields that break theirs): name "A" is invalid and
\* "Al" valid, email "a@b.c" valid and "a@b" invalid, a message of 9 characters
\* invalid and one of 10 valid.
C7_ValidIffRulesHold ==
    /\ Submitted => (lastEvent = "submitValid" <=> \A f \in ValidatedFields : RuleHolds(f))
    /\ Submitted => \A f \in ValidatedFields : hasError[f] <=> ~RuleHolds(f)
    /\ (Submitted /\ value["nome"] = <<"A">>) => hasError["nome"]
    /\ (Submitted /\ value["nome"] = <<"A", "l">>) => ~hasError["nome"]
    /\ (Submitted /\ value["email"] = <<"a", "@", "b", ".", "c">>) => ~hasError["email"]
    /\ (Submitted /\ value["email"] = <<"a", "@", "b">>) => hasError["email"]
    /\ (Submitted /\ value["mensagem"] = Chars(9, "m")) => hasError["mensagem"]
    /\ (Submitted /\ value["mensagem"] = Chars(10, "m")) => ~hasError["mensagem"]

C7_Witness ==
    /\ lastEvent = "submitValid"
    /\ value["nome"] = <<"A", "l">>
    /\ EmailWellFormed(Trimmed(value["email"]))
    /\ Len(Trimmed(value["mensagem"])) = 10

\* C8: goToSlide(i) sets the index to ((i mod n) + n) mod n for every integer i.
C8_GoToSlideNormalizes ==
    lastEvent = "goToSlide" =>
        currentIndex = JsRem(JsRem(argIndex, cardsLength) + cardsLength, cardsLength)

\* C9: after initialisation and after every carousel event the index is within
\* 0 .. slide count - 1.
C9_IndexInRange ==
    OnCarouselPage => (0 <= currentIndex /\ currentIndex < cardsLength)

C9_Witness ==
    /\ lastEvent = "prev"
    /\ cardsLength > 1
    /\ prevIndex = 0
    /\ argIndex = -1
    /\ currentIndex = cardsLength - 1

\* C10: previous and next wrap cyclically: from k previous gives (k - 1) mod n
\* and next (k + 1) mod n; with 5 slides previous from 0 gives 4, next from 4
\* gives 0 and next from 0 gives 1; previous undoes next and next undoes previous.
C10_PrevNextWrap ==
    /\ lastEvent = "prev" => currentIndex = (prevIndex - 1) % cardsLength
    /\ lastEvent = "next" => currentIndex = (prevIndex + 1) % cardsLength
    /\ (cardsLength = 5 /\ lastEvent = "prev" /\ prevIndex = 0) => currentIndex = 4
    /\ (cardsLength = 5 /\ lastEvent = "next" /\ prevIndex = 4) => currentIndex = 0
    /\ (cardsLength = 5 /\ lastEvent = "next" /\ prevIndex = 0) => currentIndex = 1
    /\ lastEvent = "next" => GoToSlideIndex(currentIndex - 1, cardsLength) = prevIndex
    /\ lastEvent = "prev" => GoToSlideIndex(currentIndex + 1, cardsLength) = prevIndex

C10_Witness ==
    /\ cardsLength = 5
    /\ lastEvent = "prev"
    /\ prevIndex = 0
    /\ currentIndex = 4

\* C11: after every goToSlide call exactly one dot is marked active, it is the
\* dot at the active index, and a dot's aria-selected is "true" exactly when it
\* is the active one.
C11_OneActiveDot ==
    OnCarouselPage =>
        /\ Cardinality({i \in 0..(cardsLength - 1) : dotActive[i]}) = 1
        /\ dotActive[currentIndex]
        /\ \A i \in 0..(cardsLength - 1) : dotSelected[i] <=> dotActive[i]

C11_Witness ==
    /\ lastEvent = "auto"
    /\ cardsLength = 3
    /\ prevIndex = 2
    /\ currentIndex = 0
    /\ dotActive[0] /\ ~dotActive[1] /\ ~dotActive[2]
    /\ dotSelected[0] /\ ~dotSelected[2]

\* The track's box and the viewport share at least an edge.
Intersects(rect) == rect.bottom >= 0 /\ rect.top <= rect.innerHeight
ArrowKeys == {"ArrowLeft", "ArrowRight"}
ArrowEvents == {"arrowOutOfView", "keyLeft", "keyRight"}

\* C20: an arrow key changes the carousel only when the track's box intersects
\* the viewport, and then it moves one slide; with the track entirely above or
\* below the viewport the key leaves the index and the timer as they are.
C20_KeysOnlyInView ==
    [][\A key \in ArrowKeys, rect \in Rects :
        (lastEvent' \in ArrowEvents /\ OnCarouselPage /\ KeyDownOn(key, rect)) =>
            IF Intersects(rect)
            THEN /\ currentIndex' = (currentIndex + (IF key = "ArrowLeft" THEN -1 ELSE 1))
                                       % cardsLength
                 /\ sinceManual' = 0
            ELSE UNCHANGED <<currentIndex, autoPlayTimer, intervals, dotActive, sinceManual>>]_vars

C20_Witness ==
    /\ lastEvent = "arrowOutOfView"
    /\ cardsLength > 1
    /\ currentIndex = 1
    /\ sinceManual = TickMs

\* C13: a call that resolves with failure, or rejects, ends in the error
\* feedback, never in the success one; a call that succeeds ends in the success
\* feedback and a reset form.  Either way the handler finishes: the control is
\* out of the loading state.
C13_FaultBecomesErrorFeedback ==
    /\ lastEvent \in {"submitFailed", "submitRejected"} =>
          feedbackClass = "form-feedback error"
    /\ lastEvent = "submitSucceeded" =>
          /\ feedbackClass = "form-feedback success"
          /\ \A f \in Fields : value[f] = <<>>
    /\ lastEvent \in {"submitFailed", "submitRejected", "submitSucceeded"} =>
          ~isLoading /\ ~submitDisabled

C13_Witness ==
    /\ lastEvent = "submitRejected"
    /\ feedbackClass = "form-feedback error"
    /\ calls = <<>>
    /\ value["nome"] = <<" ", "A", "l", " ">>

\* C14: at every moment a field has an error message beside it exactly when it
\* is marked invalid.
C14_MessageIffMarked ==
    \A f \in ValidatedFields : fieldError[f] # NoError <=> hasError[f]

\* C15: after the validation run of a submission attempt, the fields that carry
\* a mark or a message are exactly the fields that break a rule in this run.
C15_MarkersMatchThisRun ==
    Submitted =>
        \A f \in ValidatedFields :
            /\ (hasError[f] \/ fieldError[f] # NoError) <=> ~RuleHolds(f)
            /\ fieldError[f] # NoError => fieldError[f] = ErrorMessage(f)

C15_Witness ==
    /\ lastEvent = "submitInvalid"
    /\ RuleHolds("nome")
    /\ ~hasError["nome"]
    /\ fieldError["nome"] = NoError
    /\ ~RuleHolds("email")
    /\ fieldError["email"] = ErrorMessage("email")
    /\ focused = "email"

\* C16: the first change of the value of a field that is marked invalid removes
\* the field's mark and its message.
C16_EditRemovesMarker ==
    [][\A f \in ValidatedFields : \A v \in Samples(f) :
        (formPresent /\ hasError[f] /\ InputOn(f, v)) =>
            (~hasError'[f] /\ fieldError'[f] = NoError)]_vars

\* C12: with an optional element missing the component does nothing and nothing
\* else is affected: no exception escapes a listener, every init function of
\* the page returns, and the submit control is disabled only while a call is
\* outstanding.
C12_MissingOptionalNoOps ==
    /\ ~uncaught
    /\ loaded => initialised = {LoadOrder[k] : k \in 1..Len(LoadOrder)}
    /\ submitDisabled => calls # <<>>

\* C17: an element's revealed state goes from false to true at most once and
\* never back: the callback that reveals it stops observing it, so no later
\* callback acts on it.
C17_RevealedOnce ==
    /\ [](\A e \in 1..revealCount :
            /\ revealActs[e] <= 1
            /\ e \in revealed => e \notin observed
            /\ ~reducedMotion => (e \in revealed <=> revealActs[e] = 1))
    /\ [][revealed \subseteq revealed']_vars

C17_Witness ==
    /\ revealCount = 3
    /\ revealed = {2}
    /\ observed = {1, 3}
    /\ revealActs[2] = 1
    /\ lastEvent = "revealNone"

\* C18: the counters are set off at most once per page load: once the first
\* .stat-card has been seen intersecting the observer observes nothing, and no
\* counter's count-up is started more than once, whatever the callbacks get.
C18_CountersStartOnce ==
    /\ (staggers # <<>> \/ anims # <<>>) => ~counterObserving
    /\ \A c \in 1..Len(counterTargets) : starts[c] <= 1

\* The number a text of digit groups stands for.
RECURSIVE GroupsValue(_)
GroupsValue(g) ==
    IF Len(g) = 1 THEN g[1]
    ELSE GroupsValue(SubSeq(g, 1, Len(g) - 1)) * 1000 + g[Len(g)]

TextValue(text) == IF text.negative THEN 0 - GroupsValue(text.groups) ELSE GroupsValue(text.groups)

\* 1 - (1 - t)^3 = 3t - 3t^2 + t^3 at t = k / ProgressSteps, as a numerator over
\* Cube(ProgressSteps).
EasedAt(k) == 3 * k * ProgressSteps * ProgressSteps - 3 * k * k * ProgressSteps + k * k * k

\* r is num / den rounded to the nearest integer, halves upwards.
IsRounded(r, num, den) == 2 * den * r - den <= 2 * num /\ 2 * num < 2 * den * r + den

\* Normalised time, clamped, in ProgressSteps-ths.
ClampedTime(ms) ==
    IF ms <= 0 THEN 0 ELSE IF ms >= COUNTER_DURATION THEN ProgressSteps ELSE Steps(ms)

AnimsOf(c) == {k \in 1..Len(anims) : anims[k].counter = c}

\* C19: every frame of a counter's animation shows round(target * (1 - (1 - t)^3))
\* for the clamped normalised time t of the frame; the animation asks for no
\* frame once t has reached 1, and what it has shown then is the target; from
\* frame to frame the number shown never goes down.
C19_CountUpMonotone ==
    /\ [](\A c \in 1..Len(counterTargets) :
            /\ (AnimsOf(c) # {} /\ anims[Last(AnimsOf(c))].framed) =>
                  IsRounded(TextValue(counterText[c]),
                            counterTargets[c] * EasedAt(ClampedTime(anims[Last(AnimsOf(c))].at)),
                            Cube(ProgressSteps))
            /\ \A k \in AnimsOf(c) :
                  anims[k].framed => (anims[k].running <=> anims[k].at < COUNTER_DURATION)
            /\ (AnimsOf(c) # {} /\ \A k \in AnimsOf(c) : ~anims[k].running) =>
                  TextValue(counterText[c]) = counterTargets[c])
    /\ [][\A c \in 1..Len(counterTargets) :
            counterText[c] # NoText => TextValue(counterText'[c]) >= TextValue(counterText[c])]_vars

C19_Witness ==
    /\ Len(counterTargets) = 2
    /\ counterTargets[2] = 1234
    /\ counterText[2] = [negative |-> FALSE, groups |-> <<1, 234>>]
    /\ anims # <<>>
    /\ \A k \in 1..Len(anims) : ~anims[k].running /\ anims[k].at >= COUNTER_DURATION
    /\ starts[2] = 1
    /\ frameLag = CounterTickMs

\* C21: with the reduced-motion preference active at init every .reveal-up
\* element is revealed at once and none is observed, then or later; no
\* observer callback ever acts on one.
C21_ReducedMotionRevealsAll ==
    reducedMotion =>
        /\ revealed = 1..revealCount
        /\ observed = {}
        /\ \A e \in 1..revealCount : revealActs[e] = 0

C21_Witness ==
    /\ reducedMotion
    /\ revealCount = MaxReveal
    /\ revealed = 1..MaxReveal
    /\ observed = {}
    /\ lastEvent = "init"

TouchEvents == {"swipeNext", "swipePrev", "touchShort"}

\* The stored timer is a fresh one and the one stored before it is cleared.
TimerReset ==
    ~reducedMotion =>
        /\ autoPlayTimer' \in Handles
        /\ intervals'[autoPlayTimer'] = AUTO_PLAY_INTERVAL
        /\ (autoPlayTimer \in Handles /\ autoPlayTimer # autoPlayTimer') =>
              intervals'[autoPlayTimer] = Off

\* C22: a touch that ends more than 50px from where it started moves one slide,
\* to the next when the finger went left and to the previous when it went
\* right, and resets the timer; a touch that ends within 50px leaves the index
\* and the timer as they are.
C22_SwipeOverThreshold ==
    [][\A endX \in TouchEndXs :
        (lastEvent' \in TouchEvents /\ OnCarouselPage /\ TouchEndOn(endX)) =>
            IF touchStartX - endX > 50
            THEN currentIndex' = (currentIndex + 1) % cardsLength /\ TimerReset
            ELSE IF endX - touchStartX > 50
            THEN currentIndex' = (currentIndex + cardsLength - 1) % cardsLength /\ TimerReset
            ELSE UNCHANGED <<currentIndex, autoPlayTimer, intervals, dotActive, sinceManual>>]_vars

C22_Witness ==
    /\ lastEvent = "swipePrev"
    /\ touchStartX = 0
    /\ cardsLength = 3
    /\ prevIndex = 0
    /\ currentIndex = 2
    /\ ~reducedMotion
    /\ intervals[autoPlayTimer] = AUTO_PLAY_INTERVAL

\* C23: at most one interval timer of the carousel is live at any time, and the
\* stored handle autoPlayTimer is the handle of the live one.
C23_SingleLiveInterval ==
    /\ Cardinality({h \in Handles : intervals[h] # Off}) <= 1
    /\ \A h \in Handles : intervals[h] # Off => autoPlayTimer = h

\* The four marks of the menu agree.
MenuConsistent ==
    /\ menuOpen <=> ariaExpanded = "true"
    /\ menuOpen <=> ariaHidden = "false"
    /\ menuOpen <=> bodyOverflow = "hidden"

\* C24: after toggle clicks, menu-link clicks and Escape presses in any order
\* the menu has is-open exactly when aria-expanded is "true", aria-hidden is
\* "false" and the body's overflow is hidden: the marks agree once the menu has
\* been opened or closed, and they stay in agreement if the markup had them so;
\* Escape with the menu closed changes nothing.
C24_MenuConsistent ==
    /\ [](menuSet => MenuConsistent)
    /\ [][MenuConsistent => MenuConsistent']_vars
    /\ [][(~menuOpen /\ NavKeyDownOn("Escape")) =>
            UNCHANGED <<menuOpen, ariaExpanded, ariaHidden, bodyOverflow, toggleFocused,
                        scrollY, navScrolled>>]_vars

C24_Witness ==
    /\ lastEvent = "Escape"
    /\ menuSet
    /\ ~menuOpen
    /\ ariaExpanded = "false"
    /\ ariaHidden = "true"
    /\ bodyOverflow = ""
    /\ toggleFocused
    /\ navScrolled

\* C25: a submission that does not succeed leaves what the user typed alone: the
\* field values are the same after the handler as before it when validation
\* fails, when the submit event is not dispatched, when the handler throws before
\* its await, and when the collaborator's call resolves with a failure or
\* rejects; the only step that changes a field without an input event is the
\* reset after the collaborator's success, which empties every field.
NotSucceeded == {"submitInvalid", "submitBlocked", "submitThrew", "submitFailed", "submitRejected"}

C25_FailedSubmitKeepsInput ==
    /\ [][lastEvent' \in NotSucceeded => value' = value]_vars
    /\ [][(value' # value /\ lastEvent' # "input") =>
            /\ lastEvent' = "submitSucceeded"
            /\ \A f \in Fields : value'[f] = <<>>]_vars

C25_Witness ==
    /\ lastEvent = "submitRejected"
    /\ feedbackClass = "form-feedback error"
    /\ value["nome"] = <<" ", "A", "l", " ">>
    /\ value["email"] = <<"a", "@", "b">>
    /\ ~submitDisabled

====
